---- MODULE Spec2Model ----
(***************************************************************************)
(* State-machine model of src/VirtualConsoleComponentRender.js: the host   *)
(* console interception (capture buffer, active-display slot), the         *)
(* <virtual-console> widget lifecycle, and the incremental evaluator that  *)
(* re-evaluates the accumulated program in an iframe on every submission.  *)
(***************************************************************************)
EXTENDS Integers, Sequences, FiniteSets, TLC

\* ---------------------------------------------------------------- bounds
MaxLogs == 2
MaxAttach == 3
MaxSubmits == 3
MaxClears == 2
MaxInstalls == 2
MaxHistory == 3
MaxPresses == 5
MaxToggles == 2

\* The <virtual-console> elements of the page.
Widgets == {1, 2}

\* ------------------------------------------------------------- the template
\* The named regions connectedCallback binds with querySelector.
AllRegions ==
    {"consoleOutput", "consoleInput", "clearButton", "hideButton",
     "showButton", "consoleDisplay", "consoleIframe"}

\* The templates the page may be served: the full one, and ones lacking a region.
Templates ==
    {AllRegions, AllRegions \ {"consoleOutput"}, AllRegions \ {"consoleIframe"}}

\* ------------------------------------------------------- host interception
LogFns == {"log", "warn", "error"}

\* A variant in which the warn wrapper tags its entry LOG.
EntryTypeWarnAsLog(fn) ==
    IF fn = "error" THEN "ERROR" ELSE "LOG"

\* The type written into the LogEntry by each wrapper.
EntryType(fn) ==
    CASE fn = "log" -> "LOG"
      [] fn = "warn" -> "WARN"
      [] fn = "error" -> "ERROR"

\* One line of the output textarea: `[ts] [type] message\n`.  Host log lines
\* carry the identity of the call that produced them; widget lines carry text.
Line(type, id, text) == [type |-> type, id |-> id, text |-> text]

\* A function object made by this.appendMessage.bind(this): a fresh object per
\* evaluation of the bind expression, identified by widget and creating site.
BindAppendMessage(w, site) == [widget |-> w, site |-> site]

\* let activeConsoleAppender = null
NullAppender == [widget |-> 0, site |-> "null"]

\* ------------------------------------------------------------ the evaluator
\* Statements a user may submit (each stands for a concrete source text):
\*   let_x        let x = 1;
\*   x_plus_1     x + 1
\*   syntax_err   let = ;                       (does not parse)
\*   set_g_throw  g = 7; throw new Error("boom")
\*   g            g
\*   once         customElements.define("my-el", class extends HTMLElement {})
\*   blank        (whitespace only)
Inputs == {"let_x", "x_plus_1", "syntax_err", "set_g_throw", "g", "once", "blank"}

\* Two more texts, typed where the history list and the display of a result
\* are examined:
\*   g_padded     ` g `                         (g between spaces)
\*   self         self                          (the window: it refers to itself)
MoreInputs == {"g_padded", "self"}

\* Statements that call the console of the evaluation context:
\*   log_hi       console.log("hi")
\*   warn_hi      console.warn("hi")
\*   error_hi     console.error("hi")
ContextInputs == {"log_hi", "warn_hi", "error_hi"}

\* The type the wrapper installed in the context passes to
\* window.__appendConsoleMessage (lines 270, 275, 280).
ContextTag(input) ==
    CASE input = "log_hi" -> "IFRAME_LOG"
      [] input = "warn_hi" -> "IFRAME_WARN"
      [] OTHER -> "IFRAME_ERROR"

\* input.trim()
Trim(input) ==
    CASE input = "blank" -> ""
      [] input = "g_padded" -> "g"
      [] OTHER -> input

\* input.trim() is empty
IsBlank(input) == input \in {"", "blank"}

\* input.trim().match(/^(let|const|var|function|class)\s/)
IsDeclaration(input) == input = "let_x"

NoValue == "undefined"

\* The window object as a completion value: window.self === window.
Cyclic == "[object Window]"

\* JSON.stringify(value, null, 2) returns: it throws a TypeError on a value
\* that refers to itself.
Serializable(value) == value # Cyclic

Count(seq, x) == Cardinality({i \in 1..Len(seq) : seq[i] = x})

\* Early errors of the whole candidate: a fragment that does not parse, or a
\* block-scoped name declared twice in the same eval code.
EarlyError(prog) ==
    \/ \E i \in 1..Len(prog) : prog[i] = "syntax_err"
    \/ Count(prog, "let_x") > 1

Thrown(globals, message) ==
    [threw |-> TRUE, globals |-> globals, value |-> NoValue, message |-> message]

\* Statement-by-statement execution of eval code in a window whose state
\* (global properties, registered element names) is `globals`; `lets` are the lexical bindings initialised so far
\* (they live in the eval's own environment and die with it); `value` is the
\* completion value so far (a declaration leaves it unchanged).
RECURSIVE Run(_, _, _, _, _)
Run(prog, i, globals, lets, value) ==
    IF i > Len(prog)
    THEN [threw |-> FALSE, globals |-> globals, value |-> value, message |-> ""]
    ELSE CASE prog[i] = "let_x" ->
                Run(prog, i + 1, globals, lets \cup {"x"}, value)
           [] prog[i] = "x_plus_1" ->
                IF "x" \in lets
                THEN Run(prog, i + 1, globals, lets, "2")
                ELSE Thrown(globals, "x is not defined")
           [] prog[i] = "set_g_throw" ->
                Thrown(globals \cup {"g"}, "boom")
           [] prog[i] \in {"g", "g_padded"} ->
                IF "g" \in globals
                THEN Run(prog, i + 1, globals, lets, "7")
                ELSE Thrown(globals, "g is not defined")
           [] prog[i] = "self" ->
                Run(prog, i + 1, globals, lets, Cyclic)
           [] prog[i] = "once" ->
                IF "my-el" \in globals
                THEN Thrown(globals, "the name my-el has already been used")
                ELSE Run(prog, i + 1, globals \cup {"my-el"}, lets, NoValue)
           [] prog[i] \in ContextInputs ->
                Run(prog, i + 1, globals, lets, NoValue)
           [] OTHER ->
                Run(prog, i + 1, globals, lets, value)

\* this.iframeWindow.eval(finalCodeToExecute)
IframeEval(globals, prog) ==
    IF EarlyError(prog)
    THEN Thrown(globals, "SyntaxError")
    ELSE Run(prog, 1, globals, {}, NoValue)

\* The statements of `prog` that eval runs to their end: none when the text
\* has an early error, else all before the first that throws.
Executed(globals, prog) ==
    IF EarlyError(prog) THEN 0
    ELSE CHOOSE n \in 0..Len(prog) :
            /\ ~Run(SubSeq(prog, 1, n), 1, globals, {}, NoValue).threw
            /\ n < Len(prog) => Run(SubSeq(prog, 1, n + 1), 1, globals, {}, NoValue).threw

\* The console statements among them, in order.
ContextCalls(globals, prog) ==
    SelectSeq(SubSeq(prog, 1, Executed(globals, prog)),
              LAMBDA stmt : stmt \in ContextInputs)

\* --------------------------------------------------------------- the state
VARIABLES
    consoleMessageBuffer,    \* const consoleMessageBuffer = []
    activeConsoleAppender,   \* let activeConsoleAppender = null
    originalCalls,           \* calls that reached originalLog/Warn/Error
    localStorage,            \* the durable key-value store
    widgets,                 \* the VirtualConsoleComponent instances
    logCount,                \* intercepted calls made so far
    calls,                   \* history: every intercepted call, in call order
    lastOp,                  \* history: the handler that ran last
    template,                \* the regions of VirtualConsoleComponent.html
    shadow,                  \* history: per widget, the run without the throwing submissions
    reinstalled              \* the buffers of later executions of the script, outermost last

vars ==
    <<consoleMessageBuffer, activeConsoleAppender, originalCalls, localStorage,
      widgets, logCount, calls, lastOp, template, shadow, reinstalled>>

\* A stored string under the history key, by what JSON.parse makes of it:
\*   absent   no item at all (getItem returns null)
\*   array    the JSON text of a list of strings
\*   garbage  text that is not JSON
\*   null, number, object
\*            JSON text of a value that is not a list
Absent == [json |-> "absent", items |-> <<>>]

\* The store as the constructor finds it on first run: no key is set, and
\* getItem / setItem do not throw.
EmptyStorage ==
    [virtualConsoleHistory |-> Absent, virtualConsoleVisible |-> "absent",
     virtualConsoleWidth |-> "absent", virtualConsoleHeight |-> "absent",
     throws |-> FALSE]

\* getLocalStorageItem(key, defaultValue), for the keys holding plain text:
\* the default when getItem throws or returns null.
getLocalStorageItem(ls, key, defaultValue) ==
    IF ls.throws \/ ls[key] = "absent" THEN defaultValue ELSE ls[key]

\* A variant of setLocalStorageItem that writes nothing.
setLocalStorageItemNever(ls, key, value) == ls

\* setLocalStorageItem(key, value): the store afterwards (unchanged when
\* setItem throws).
setLocalStorageItem(ls, key, value) ==
    IF ls.throws THEN ls ELSE [ls EXCEPT ![key] = value]

\* The LogEntry that console.error makes of the message of a catch block of
\* getLocalStorageItem / setLocalStorageItem (no host call stands behind it),
\* and the line appendMessage makes of it.
StorageErrorEntry == [id |-> 0, type |-> "ERROR"]
StorageErrorLine == [type |-> "ERROR", id |-> 0, text |-> ""]

\* JSON.stringify(this.inputHistory)
StringifyHistory(h) == [json |-> "array", items |-> h]

\* The value of `JSON.parse(this.getLocalStorageItem(this.HISTORY_KEY, '[]'))`
\* inside the constructor's try/catch: the catch block yields [].
ParseHistory(ls) ==
    LET v == IF ls.throws THEN Absent ELSE ls.virtualConsoleHistory
    IN CASE v.json = "absent" -> [kind |-> "array", items |-> <<>>]
         [] v.json = "array" -> [kind |-> "array", items |-> v.items]
         [] v.json = "garbage" -> [kind |-> "array", items |-> <<>>]
         [] OTHER -> [kind |-> v.json, items |-> <<>>]

\* The fields the constructor sets, read from the store `ls`.  Reading
\* `.length` of null throws, which ends the constructor; of a number or an
\* object it is undefined (historyIndex -1 stands for undefined).
Constructed(ls) ==
    [ constructed |-> (ParseHistory(ls).kind # "null"),
      connected |-> FALSE,
      cc |-> "none",              \* where connectedCallback stands
      onload |-> "none",          \* a load is pending: who awaits it, or "reload"
      regions |-> {},             \* the regions querySelector found
      listeners |-> FALSE,        \* event listeners on the current DOM
      textarea |-> <<>>,          \* this.textarea.value, as lines
      inputValue |-> "",          \* this.inputElement.value
      iframeWindow |-> FALSE,     \* this.iframeWindow !== null
      bridge |-> FALSE,           \* that window's console forwards to appendMessage
      globals |-> {},             \* the state of that window
      cumulativeExecutedCode |-> <<>>,
      historyKind |-> ParseHistory(ls).kind,
      inputHistory |-> ParseHistory(ls).items,
      historyIndex |-> IF ParseHistory(ls).kind = "array"
                       THEN Len(ParseHistory(ls).items) ELSE -1,
      isConsoleVisible |-> (getLocalStorageItem(ls, "virtualConsoleVisible", "true") = "true"),
      lastKnownWidth |-> getLocalStorageItem(ls, "virtualConsoleWidth", "80vw"),
      lastKnownHeight |-> getLocalStorageItem(ls, "virtualConsoleHeight", "25vh"),
      width |-> "",               \* consoleDisplay.style.width
      height |-> "",              \* consoleDisplay.style.height
      display |-> "flex",         \* consoleDisplay.style.display
      saveTimer |-> FALSE,        \* the debounce timer of saveConsoleSize is armed
      observing |-> FALSE,        \* this.resizeObserver observes the display
      attaches |-> 0,
      submits |-> 0,
      clears |-> 0,
      toggles |-> 0 ]

\* The handler that ran last, its widget and argument, the widget the slot
\* referred to when it started (0: null), and whether it ended by an exception
\* that nothing caught.
NoOp == [op |-> "init", w |-> 0, arg |-> "", slot |-> 0, threw |-> FALSE]

Op(op, w, arg) ==
    [op |-> op, w |-> w, arg |-> arg, slot |-> activeConsoleAppender.widget,
     threw |-> FALSE]

\* History kept beside each widget:
\*   sinceReset  the inputs evaluated without throwing since the context was
\*               last reset (Clear invoked, or a context loaded)
\*   declared    `let x` was committed and Clear was not invoked since
\*   forgotten   names defined when the last Clear was invoked and not defined
\*               again since; clearDone: that Clear has completed
\*   lines       what the last evaluated submission displayed after its echo
\*   refProgram, refGlobals, refLines
\*               the same widget fed the same handlers, without the submissions
\*               whose evaluation threw
\*   ups, downs  the arrow presses in a row just made (counted up to MaxPresses)
\*   runLen      the length of the history list when that row began
\*   runFresh    the cursor stood at the end of the list when that row began
\*   lastVisible the last of hide / show that ran on any widget, over all
\*               loads of the page ("none": neither yet)
\*   notices     the runs of clearConsole() that reached their last line
\*   promised    since the last Clear: for every committed console statement,
\*               one, and one more for each later submission handed to eval
\*   reached     since the last Clear: for every committed console statement,
\*               one, and one more for each later submission whose evaluation
\*               ran up to that statement
NoShadow ==
    [sinceReset |-> <<>>, declared |-> FALSE, forgotten |-> {}, clearDone |-> FALSE,
     lines |-> <<>>, refProgram |-> <<>>, refGlobals |-> {}, refLines |-> <<>>,
     ups |-> 0, downs |-> 0, runLen |-> 0, runFresh |-> FALSE,
     lastVisible |-> "none", notices |-> 0, promised |-> 0, reached |-> 0]

\* The reads of the store one construction makes (lines 96, 97, 98, 102).
ConstructorReads == <<"virtualConsoleVisible", "virtualConsoleWidth",
                      "virtualConsoleHeight", "virtualConsoleHistory">>

\* The entries the constructions of all widgets leave in the buffer: each read
\* that throws is reported through console.error, and no display is registered.
RECURSIVE ConstructionErrors(_, _)
ConstructionErrors(ls, n) ==
    IF n = 0 \/ ~ls.throws THEN <<>>
    ELSE [i \in 1..Len(ConstructorReads) |-> StorageErrorEntry]
         \o ConstructionErrors(ls, n - 1)

\* The calls of the original console.error those constructions make: one per
\* reported read, and line 104 for a history text that does not parse.
ConstructionCalls(ls) ==
    [i \in 1..Len(ConstructionErrors(ls, Cardinality(Widgets))) |->
        [fn |-> "error", id |-> 0]]
    \o (IF ~ls.throws /\ ls.virtualConsoleHistory.json = "garbage"
        THEN [i \in 1..Cardinality(Widgets) |-> [fn |-> "error", id |-> 0]]
        ELSE <<>>)

\* The page after the script has run and the elements have been constructed,
\* served one of the templates `T`, with one of the stores `S`.
InitFrom(T, S) ==
    /\ template \in T
    /\ localStorage \in S
    /\ consoleMessageBuffer = ConstructionErrors(localStorage, Cardinality(Widgets))
    /\ activeConsoleAppender = NullAppender
    /\ originalCalls = ConstructionCalls(localStorage)
    /\ widgets = [w \in Widgets |-> Constructed(localStorage)]
    /\ logCount = 0
    /\ calls = <<>>
    /\ lastOp = NoOp
    /\ shadow = [w \in Widgets |-> NoShadow]
    /\ reinstalled = <<>>

InitWith(T) == InitFrom(T, {EmptyStorage})

Init == InitWith(Templates)

\* ------------------------------------------------------------ appendMessage
HasOutput(W, w) == "consoleOutput" \in W[w].regions

\* appendMessage(message, type, timestamp): guarded by `if (this.textarea)`.
appendMessage(W, w, line) ==
    IF HasOutput(W, w)
    THEN [W EXCEPT ![w].textarea = Append(@, line)]
    ELSE W

\* A variant that takes the entries from the back (pop instead of shift).
RECURSIVE flushMessageBufferPop(_, _, _)
flushMessageBufferPop(W, w, buf) ==
    IF Len(buf) > 0
    THEN flushMessageBufferPop(
             appendMessage(W, w, Line(buf[Len(buf)].type, buf[Len(buf)].id, "")),
             w, SubSeq(buf, 1, Len(buf) - 1))
    ELSE W

\* flushMessageBuffer(): while (buffer.length > 0) appendMessage(buffer.shift()).
\* Yields the widgets after the loop; the buffer is empty afterwards.
RECURSIVE flushMessageBuffer(_, _, _)
flushMessageBuffer(W, w, buf) ==
    IF Len(buf) > 0
    THEN flushMessageBuffer(
             appendMessage(W, w, Line(Head(buf).type, Head(buf).id, "")),
             w, Tail(buf))
    ELSE W

\* A variant of the loop that stops after the first entry.
DrainedOnce(buf) == IF Len(buf) > 0 THEN Tail(buf) ELSE buf

\* consoleMessageBuffer after flushMessageBuffer(): shift() has removed every
\* entry the loop appended, and the loop ends at length 0.
Drained(buf) == <<>>

\* ----------------------------------------------------- formatConsoleMessage
\* The arguments a caller may pass (each stands for a concrete value):
\*   text          'a'
\*   object        { a: 1 }
\*   cyclic        o = {}; o.self = o
\*   cyclic_bare   o = Object.create(null); o.self = o
ArgKinds == {"text", "object", "cyclic", "cyclic_bare"}

\* The argument lists of the calls: none, one, or a text and one more.
ArgLists ==
    {<<>>} \cup {<<k>> : k \in ArgKinds} \cup {<<"text", k>> : k \in ArgKinds}

\* typeof arg === 'object' && arg !== null
IsObject(arg) == arg \in {"object", "cyclic", "cyclic_bare"}

\* JSON.stringify(arg, null, 2): a TypeError on a structure that contains itself.
Stringify(arg) ==
    IF arg \in {"cyclic", "cyclic_bare"}
    THEN [threw |-> TRUE, text |-> ""]
    ELSE [threw |-> FALSE, text |-> "{ a: 1 }"]

\* String(arg): the text itself; Object.prototype.toString for an object that
\* inherits it; a TypeError for an object without toString and valueOf.
String(arg) ==
    CASE arg = "text" -> [threw |-> FALSE, text |-> "a"]
      [] arg = "cyclic_bare" -> [threw |-> TRUE, text |-> ""]
      [] OTHER -> [threw |-> FALSE, text |-> "[object Object]"]

\* The callback of args.map: the catch block is entered when stringify
\* throws, and what String throws there is not caught.
FormatArg(arg) ==
    IF IsObject(arg)
    THEN IF Stringify(arg).threw THEN String(arg) ELSE Stringify(arg)
    ELSE String(arg)

\* formatConsoleMessage(args): the texts that join(' ') concatenates, or the
\* exception of the first argument that fails.
formatConsoleMessage(args) ==
    [threw |-> \E i \in 1..Len(args) : FormatArg(args[i]).threw,
     parts |-> [i \in 1..Len(args) |-> FormatArg(args[i]).text]]

\* ------------------------------------------------- console.log/warn/error
\* The three wrappers installed at script load: build the LogEntry, route it
\* to the active appender or to the buffer, then call the original function.
\* A wrapper installed by a later execution of the script runs first: it builds
\* a LogEntry of its own, keeps it in its own buffer (no widget registers with
\* that execution), and calls the wrapper it found installed.  When the
\* formatter throws, the outermost wrapper ends there.
ConsoleCallWith(fn, args) ==
    IF formatConsoleMessage(args).threw
    THEN /\ lastOp' = [Op("console", activeConsoleAppender.widget, fn)
                          EXCEPT !.threw = TRUE]
         /\ UNCHANGED <<consoleMessageBuffer, activeConsoleAppender, originalCalls,
                        localStorage, widgets, logCount, calls, template, shadow,
                        reinstalled>>
    ELSE
    /\ logCount < MaxLogs
    /\ LET id == logCount + 1
           messageEntry == [id |-> id, type |-> EntryType(fn)]
       IN /\ IF activeConsoleAppender # NullAppender
             THEN /\ widgets' = appendMessage(widgets, activeConsoleAppender.widget,
                                              Line(messageEntry.type, id, ""))
                  /\ UNCHANGED consoleMessageBuffer
             ELSE /\ consoleMessageBuffer' = Append(consoleMessageBuffer, messageEntry)
                  /\ UNCHANGED widgets
          /\ reinstalled' = [k \in DOMAIN reinstalled |->
                                Append(reinstalled[k], messageEntry)]
          /\ originalCalls' = Append(originalCalls, [fn |-> fn, id |-> id])
          /\ logCount' = id
          /\ calls' = Append(calls, [id |-> id, fn |-> fn,
                                     routed |-> activeConsoleAppender.widget,
                                     entries |-> 1 + Len(reinstalled)])
          /\ lastOp' = Op("console", activeConsoleAppender.widget, fn)
    /\ UNCHANGED <<activeConsoleAppender, localStorage, template, shadow>>

\* A call with one text argument.
ConsoleCall(fn) == ConsoleCallWith(fn, <<"text">>)

\* The script is executed once more in the same page.  As a classic script
\* its top-level `const originalLog` collides with the first execution's and
\* nothing runs (a SyntaxError); as a module (fetched under another URL) it
\* has a scope of its own: it reads console.log/warn/error, which are the
\* wrappers, installs its wrappers around them, and ends at line 466, where
\* customElements.define throws for the name already defined.
RunScriptAgain(mode) ==
    /\ Len(reinstalled) + 1 < MaxInstalls
    /\ reinstalled' = IF mode = "module" THEN Append(reinstalled, <<>>) ELSE reinstalled
    /\ lastOp' = [Op("script", 0, mode) EXCEPT !.threw = TRUE]
    /\ UNCHANGED <<consoleMessageBuffer, activeConsoleAppender, originalCalls,
                   localStorage, widgets, logCount, calls, template, shadow>>

\* ---------------------------------------------------------- the lifecycle
RECURSIVE SumAttaches(_, _)
SumAttaches(W, S) ==
    IF S = {} THEN 0
    ELSE LET w == CHOOSE x \in S : TRUE
         IN W[w].attaches + SumAttaches(W, S \ {w})

\* Insertions of a widget into the document so far.
Attaches(W) == SumAttaches(W, Widgets)

\* The element is inserted into the document: connectedCallback starts and
\* suspends at `await fetch(...)`.  The shadow DOM of an earlier run is live
\* again until the template replaces it, and its iframe loads anew, which
\* fires the onload handler the earlier run left on it.  (A re-insertion while
\* an earlier initialization is still suspended is not modelled.)
Connect(w) ==
    /\ widgets[w].constructed
    /\ ~widgets[w].connected
    /\ widgets[w].cc \in {"none", "done"}
    /\ Attaches(widgets) < MaxAttach
    /\ widgets' = [widgets EXCEPT
          ![w].connected = TRUE,
          ![w].cc = "fetch",
          ![w].onload = IF @ = "none" /\ "consoleIframe" \in widgets[w].regions
                        THEN "reload" ELSE @,
          ![w].attaches = @ + 1]
    /\ lastOp' = Op("connect", w, "")
    /\ UNCHANGED <<consoleMessageBuffer, activeConsoleAppender, originalCalls,
                   localStorage, logCount, calls, template, shadow, reinstalled>>

\* updateVisibility(): show or hide the display, if it and the show button
\* are there.
updateVisibility(W, w) ==
    IF {"consoleDisplay", "showButton"} \subseteq W[w].regions
    THEN [W EXCEPT ![w].display = IF W[w].isConsoleVisible THEN "flex" ELSE "none"]
    ELSE W

\* The tail of connectedCallback, after `await this.setupIframeContext()`:
\* add the listeners, register as active appender, flush the buffer, apply
\* the visibility.
\* Yields the widgets; the slot and the buffer are set by the caller.
Registered(W, w) ==
    updateVisibility(
        flushMessageBuffer([W EXCEPT ![w].listeners = TRUE, ![w].cc = "done"],
                           w, consoleMessageBuffer),
        w)

\* fetch and response.text() resolve: the template replaces the shadow DOM,
\* the regions are bound, the display gets the size the constructor read, the
\* ResizeObserver is created (its first report arms the save timer), and
\* setupIframeContext either resolves at once (no iframe) or sets src and
\* suspends until onload.
FetchDone(w) ==
    /\ widgets[w].cc = "fetch"
    /\ LET tpl == template
           bound == [widgets EXCEPT
                       ![w].regions = tpl,
                       ![w].textarea = <<>>,
                       ![w].inputValue = "",
                       ![w].listeners = FALSE,
                       ![w].display = "flex",
                       ![w].width = IF "consoleDisplay" \in tpl
                                    THEN widgets[w].lastKnownWidth ELSE @,
                       ![w].height = IF "consoleDisplay" \in tpl
                                     THEN widgets[w].lastKnownHeight ELSE @,
                       ![w].saveTimer = IF "consoleDisplay" \in tpl THEN TRUE ELSE @,
                       ![w].observing = IF "consoleDisplay" \in tpl THEN TRUE ELSE @]
       IN IF "consoleIframe" \in tpl
          THEN /\ widgets' = [bound EXCEPT ![w].cc = "load", ![w].onload = "connect"]
               /\ lastOp' = Op("fetched", w, "")
               /\ UNCHANGED <<consoleMessageBuffer, activeConsoleAppender, originalCalls>>
          ELSE /\ widgets' = Registered([bound EXCEPT ![w].onload = "none"], w)
               /\ activeConsoleAppender' = BindAppendMessage(w, "connectedCallback")
               /\ consoleMessageBuffer' = Drained(consoleMessageBuffer)
               /\ originalCalls' = Append(originalCalls, [fn |-> "error", id |-> 0])
               /\ lastOp' = Op("ready", w, "")
    /\ UNCHANGED <<localStorage, logCount, calls, template, shadow, reinstalled>>

\* A variant in which only the load awaited by connectedCallback installs
\* the wrappers.
BridgedOnConnect(awaiting) == awaiting = "connect"

\* Lines 248-285, in the onload handler: window.__appendConsoleMessage is
\* set and the window's console.log/warn/error are wrapped, whoever awaits
\* the load.
Bridged(awaiting) == TRUE

\* consoleIframe.onload fires (only for an iframe in the document):
\* iframeWindow is the freshly loaded window, with the console bridge
\* installed; then whoever awaited the promise continues.
IframeLoad(w) ==
    /\ widgets[w].onload # "none"
    /\ widgets[w].connected
    /\ LET loaded == [widgets EXCEPT ![w].iframeWindow = TRUE,
                                     ![w].bridge = Bridged(widgets[w].onload),
                                     ![w].globals = {},
                                     ![w].onload = "none"]
       IN CASE widgets[w].onload = "connect" ->
                 /\ widgets' = Registered(loaded, w)
                 /\ activeConsoleAppender' = BindAppendMessage(w, "connectedCallback")
                 /\ consoleMessageBuffer' = Drained(consoleMessageBuffer)
                 /\ lastOp' = Op("ready", w, "loaded")
            [] widgets[w].onload = "clear" ->
                 /\ widgets' = appendMessage(loaded, w, Line("SYSTEM", 0, "cleared"))
                 /\ lastOp' = Op("cleared", w, "loaded")
                 /\ UNCHANGED <<consoleMessageBuffer, activeConsoleAppender>>
            [] OTHER ->
                 /\ widgets' = loaded
                 /\ lastOp' = Op("reloaded", w, "loaded")
                 /\ UNCHANGED <<consoleMessageBuffer, activeConsoleAppender>>
    /\ shadow' = [shadow EXCEPT ![w].sinceReset = <<>>,
                                ![w].refGlobals = {},
                                ![w].clearDone = (widgets[w].onload = "clear"),
                                ![w].notices = IF widgets[w].onload = "clear"
                                               THEN @ + 1 ELSE @]
    /\ UNCHANGED <<originalCalls, localStorage, logCount, calls, template, reinstalled>>

\* A variant of the comparison that holds for any two functions.
SameFunctionAlways(f, g) == TRUE

\* `f === g` on function objects: the same object.
SameFunction(f, g) == f = g

\* disconnectedCallback(): disconnect the observer; clear the slot if it holds
\* `this.appendMessage.bind(this)`, a function object made by this very test.
Disconnect(w) ==
    /\ widgets[w].connected
    /\ widgets' = [widgets EXCEPT ![w].connected = FALSE, ![w].observing = FALSE]
    /\ activeConsoleAppender' =
          IF SameFunction(activeConsoleAppender,
                          BindAppendMessage(w, "disconnectedCallback"))
          THEN NullAppender
          ELSE activeConsoleAppender
    /\ lastOp' = Op("disconnect", w, "")
    /\ UNCHANGED <<consoleMessageBuffer, originalCalls, localStorage, logCount,
                   calls, template, shadow, reinstalled>>

\* ------------------------------------------------------ the input handlers
CanUse(w, region) ==
    /\ widgets[w].connected
    /\ widgets[w].listeners
    /\ region \in widgets[w].regions

\* A variant that leaves the store as it was.
SaveHistoryNever(ls, h) == ls

\* setLocalStorageItem(HISTORY_KEY, JSON.stringify(this.inputHistory)), lines
\* 213 and 406.
SaveHistory(ls, h) ==
    setLocalStorageItem(ls, "virtualConsoleHistory", StringifyHistory(h))

\* console.error(...) in a catch block of the storage helpers, as far as the
\* widgets go: the line goes to the display the slot refers to, if any.
ShowStorageError(W) ==
    IF activeConsoleAppender # NullAppender
    THEN IF "consoleOutput" \in W[activeConsoleAppender.widget].regions
         THEN [W EXCEPT ![activeConsoleAppender.widget].textarea =
                            Append(@, StorageErrorLine)]
         ELSE W
    ELSE W

\* The same call, as far as the buffer goes.
BufferStorageError(buf) ==
    IF activeConsoleAppender # NullAppender THEN buf
    ELSE Append(buf, StorageErrorEntry)

\* The 'input' listener: the history cursor goes back to the end when the
\* edited text diverges from the entry under it.  Yields the widgets.
afterInput(W, w, text) ==
    LET h == W[w].inputHistory
        i == W[w].historyIndex
    IN [W EXCEPT
          ![w].inputValue = text,
          ![w].historyIndex = IF W[w].historyKind = "array" /\ i # Len(h)
                                 /\ text # h[i + 1]
                              THEN Len(h) ELSE @]

\* The user edits the input field.
InputEvent(w, text) ==
    /\ CanUse(w, "consoleInput")
    /\ text # widgets[w].inputValue
    /\ widgets' = afterInput(widgets, w, text)
    /\ shadow' = [shadow EXCEPT ![w].ups = 0, ![w].downs = 0]
    /\ lastOp' = Op("input", w, text)
    /\ UNCHANGED <<consoleMessageBuffer, activeConsoleAppender, originalCalls,
                   localStorage, logCount, calls, template, reinstalled>>

\* The OUTPUT marker shown when the result is undefined.
Marker(input) ==
    IF IsDeclaration(input)
    THEN Line("OUTPUT", 0, "(Declaracion ejecutada)")
    ELSE Line("OUTPUT", 0, "(undefined)")

\* What processInput appends after the echo, given the outcome `r` of eval:
\* the ERROR line of the catch block, then, since resultToDisplay is still
\* undefined, a marker; or the value (nothing when JSON.stringify throws on
\* it, line 427); or a marker.
Display(r, input) ==
    IF r.threw
    THEN <<Line("ERROR", 0, r.message), Marker(input)>>
    ELSE IF r.value # NoValue
         THEN IF Serializable(r.value)
              THEN <<Line("OUTPUT", 0, r.value)>>
              ELSE <<>>
         ELSE <<Marker(input)>>

\* What the console statements that eval runs append while it runs: each
\* wrapper calls window.__appendConsoleMessage(msg, type, ts), which calls
\* this.appendMessage of the widget that made the window.
ContextLines(wd, prog) ==
    IF wd.bridge
    THEN LET ran == ContextCalls(wd.globals, prog)
         IN [k \in 1..Len(ran) |-> Line(ContextTag(ran[k]), 0, "hi")]
    ELSE <<>>

\* cumulativeExecutedCode after the try block: the candidate if eval returned.
Commit(code, input, r) == IF r.threw THEN code ELSE Append(code, input)

\* A variant that evaluates the submission alone.
CandidateAlone(code, input) == <<input>>

\* const finalCodeToExecute = this.cumulativeExecutedCode + '\n' + input
Candidate(code, input) == Append(code, input)

RECURSIVE AppendAll(_, _, _)
AppendAll(W, w, lines) ==
    IF lines = <<>> THEN W
    ELSE AppendAll(appendMessage(W, w, Head(lines)), w, Tail(lines))

\* A variant of the dedup rule that pushes every text.
RecordedAlways(h, input) == Append(h, Trim(input))

\* The history list after the dedup rule of processInput and navigateHistory:
\* push input.trim() unless the last entry equals it.
Recorded(h, input) ==
    IF Len(h) = 0 \/ h[Len(h)] # Trim(input) THEN Append(h, Trim(input)) ELSE h

\* A variant in which a context is always taken to be there.
ContextMissingNever(W, w) == FALSE

\* !this.iframeWindow
ContextMissing(W, w) == ~W[w].iframeWindow

\* processInput ends by an exception: `push` of a history that is no list
\* (line 405), or JSON.stringify of the result (line 427).
Escapes(W, w, input) ==
    /\ ~IsBlank(input)
    /\ \/ W[w].historyKind # "array"
       \/ /\ ~ContextMissing(W, w)
          /\ ~IframeEval(W[w].globals,
                         Append(W[w].cumulativeExecutedCode, input)).threw
          /\ ~Serializable(IframeEval(W[w].globals,
                         Append(W[w].cumulativeExecutedCode, input)).value)

\* processInput(input): yields the widgets afterwards.
processInput(W, w, input) ==
    IF IsBlank(input) \/ W[w].historyKind # "array" THEN W
    ELSE LET recorded == [W EXCEPT ![w].inputHistory = Recorded(@, input)]
             reported == IF recorded # W /\ localStorage.throws
                         THEN ShowStorageError(recorded) ELSE recorded
             echoed == appendMessage(reported, w, Line("INPUT", 0, input))
         IN IF ContextMissing(W, w)
            THEN appendMessage(echoed, w, Line("ERROR", 0, "context not ready"))
            ELSE LET r == IframeEval(W[w].globals,
                                     Candidate(W[w].cumulativeExecutedCode, input))
                 IN AppendAll(
                        [echoed EXCEPT
                           ![w].globals = r.globals,
                           ![w].cumulativeExecutedCode = Commit(@, input, r)],
                        w,
                        ContextLines(W[w], Candidate(W[w].cumulativeExecutedCode, input))
                            \o Display(r, input))

\* The history kept beside the widget, after a submission of `input`.
ShadowAfterSubmit(sh, wd, input) ==
    IF IsBlank(input) \/ ~wd.iframeWindow \/ wd.historyKind # "array"
    THEN [sh EXCEPT !.ups = 0, !.downs = 0]
    ELSE LET r == IframeEval(wd.globals, Append(wd.cumulativeExecutedCode, input))
             ref == IframeEval(sh.refGlobals, Append(sh.refProgram, input))
         IN IF r.threw
            THEN [sh EXCEPT !.ups = 0, !.downs = 0,
                            !.lines = Display(r, input),
                            !.refLines = Display(r, input),
                            !.forgotten = IF input = "set_g_throw" THEN @ \ {"g"} ELSE @]
            ELSE [sh EXCEPT !.ups = 0, !.downs = 0,
                            !.lines = Display(r, input),
                            !.refLines = Display(ref, input),
                            !.refProgram = IF ref.threw THEN @ ELSE Append(@, input),
                            !.refGlobals = ref.globals,
                            !.sinceReset = Append(@, input),
                            !.declared = @ \/ input = "let_x",
                            !.forgotten = IF input = "let_x" THEN @ \ {"x"} ELSE @]

\* The two counts of console statements, after a submission of `input`.
CountedAfterSubmit(sh, wd, input) ==
    IF IsBlank(input) \/ ~wd.iframeWindow \/ wd.historyKind # "array"
    THEN sh
    ELSE LET code == wd.cumulativeExecutedCode
             prog == Append(code, input)
             committed == Cardinality({i \in 1..Len(code) : code[i] \in ContextInputs})
             own == IF input \in ContextInputs /\ ~IframeEval(wd.globals, prog).threw
                    THEN 1 ELSE 0
             ran == Cardinality(
                        {i \in 1..Len(prog) :
                            /\ prog[i] \in ContextInputs
                            /\ ~EarlyError(prog)
                            /\ ~Run(SubSeq(prog, 1, i), 1, wd.globals, {}, NoValue).threw})
         IN [sh EXCEPT !.promised = @ + committed + own,
                       !.reached = @ + ran]

\* The keydown listener on Enter: processInput(inputElement.value), clear
\* the field, put the history cursor at the end; the last two are not
\* reached when processInput throws.  Yields the widgets.
afterEnter(W, w) ==
    LET after == processInput(W, w, W[w].inputValue)
    IN IF Escapes(W, w, W[w].inputValue)
       THEN [after EXCEPT ![w].submits = @ + 1]
       ELSE [after EXCEPT
               ![w].inputValue = "",
               ![w].historyIndex = Len(after[w].inputHistory),
               ![w].submits = @ + 1]

\* The store after a handler that took the history list from `before` to
\* `after`: written only when an entry was pushed.
StoreAfter(ls, before, after) ==
    IF after # before THEN SaveHistory(ls, after) ELSE ls

\* The buffer and the original console.error after that handler: touched when
\* the write threw.
BufferAfter(buf, before, after) ==
    IF after # before /\ localStorage.throws THEN BufferStorageError(buf) ELSE buf

OriginalAfter(orig, before, after) ==
    IF after # before /\ localStorage.throws
    THEN Append(orig, [fn |-> "error", id |-> 0]) ELSE orig

\* The buffers of the later executions of the script after that handler: their
\* wrappers of console.error run first.
ReinstalledAfter(re, before, after) ==
    IF after # before /\ localStorage.throws
    THEN [k \in DOMAIN re |-> Append(re[k], StorageErrorEntry)] ELSE re

\* The user presses Enter in the input field.
KeydownEnter(w) ==
    /\ CanUse(w, "consoleInput")
    /\ widgets[w].submits < MaxSubmits
    /\ widgets' = afterEnter(widgets, w)
    /\ localStorage' = StoreAfter(localStorage, widgets[w].inputHistory,
                                  afterEnter(widgets, w)[w].inputHistory)
    /\ consoleMessageBuffer' = BufferAfter(consoleMessageBuffer, widgets[w].inputHistory,
                                           afterEnter(widgets, w)[w].inputHistory)
    /\ originalCalls' = OriginalAfter(originalCalls, widgets[w].inputHistory,
                                      afterEnter(widgets, w)[w].inputHistory)
    /\ shadow' = [shadow EXCEPT
                    ![w] = CountedAfterSubmit(
                               ShadowAfterSubmit(@, widgets[w], widgets[w].inputValue),
                               widgets[w], widgets[w].inputValue)]
    /\ reinstalled' = ReinstalledAfter(reinstalled, widgets[w].inputHistory,
                                       afterEnter(widgets, w)[w].inputHistory)
    /\ lastOp' = [Op("enter", w, widgets[w].inputValue)
                     EXCEPT !.threw = Escapes(widgets, w, widgets[w].inputValue)]
    /\ UNCHANGED <<activeConsoleAppender, logCount, calls, template>>

\* The user types `text` into the input field and presses Enter: the 'input'
\* listener, then the keydown listener, with no other event in between.
Submit(w, text) ==
    /\ CanUse(w, "consoleInput")
    /\ widgets[w].submits < MaxSubmits
    /\ LET typed == afterInput(widgets, w, text)
       IN /\ widgets' = afterEnter(typed, w)
          /\ localStorage' = StoreAfter(localStorage, widgets[w].inputHistory,
                                        afterEnter(typed, w)[w].inputHistory)
          /\ consoleMessageBuffer' = BufferAfter(consoleMessageBuffer,
                                          widgets[w].inputHistory,
                                          afterEnter(typed, w)[w].inputHistory)
          /\ originalCalls' = OriginalAfter(originalCalls, widgets[w].inputHistory,
                                            afterEnter(typed, w)[w].inputHistory)
          /\ shadow' = [shadow EXCEPT
                          ![w] = CountedAfterSubmit(ShadowAfterSubmit(@, typed[w], text),
                                                    typed[w], text)]
          /\ reinstalled' = ReinstalledAfter(reinstalled, widgets[w].inputHistory,
                                             afterEnter(typed, w)[w].inputHistory)
          /\ lastOp' = [Op("enter", w, text) EXCEPT !.threw = Escapes(typed, w, text)]
    /\ UNCHANGED <<activeConsoleAppender, logCount, calls, template>>

\* The names a later submission can still resolve: what a committed `let x`
\* declares and what the window's global object holds.
Defined(wd) ==
    (IF \E i \in 1..Len(wd.cumulativeExecutedCode) :
            wd.cumulativeExecutedCode[i] = "let_x"
     THEN {"x"} ELSE {})
    \cup (wd.globals \cap {"g"})

\* this.cumulativeExecutedCode = '' in clearConsole
ClearedCode(code) == <<>>

\* A variant of clearConsole that empties the command history as well.
clearConsoleAndHistory(W, w) ==
    [W EXCEPT ![w].textarea = <<>>,
              ![w].cumulativeExecutedCode = <<>>,
              ![w].inputHistory = <<>>,
              ![w].historyIndex = 0]

\* clearConsole() up to its await: the output and the accumulated program
\* are emptied.
clearConsole(W, w) ==
    [W EXCEPT ![w].textarea = <<>>,
              ![w].cumulativeExecutedCode = ClearedCode(@)]

\* click on the Clear button: clearConsole() empties the output and the
\* accumulated program, then awaits setupIframeContext() before appending its
\* notice.  Without an iframe the promise resolves at once.
ClickClear(w) ==
    /\ CanUse(w, "clearButton")
    /\ widgets[w].clears < MaxClears
    /\ LET emptied == [clearConsole(widgets, w) EXCEPT ![w].clears = @ + 1]
       IN IF "consoleIframe" \in widgets[w].regions
          THEN /\ widgets' = [emptied EXCEPT ![w].onload = "clear"]
               /\ lastOp' = Op("clear", w, "")
               /\ UNCHANGED originalCalls
          ELSE /\ widgets' = appendMessage(emptied, w, Line("SYSTEM", 0, "cleared"))
               /\ originalCalls' = Append(originalCalls, [fn |-> "error", id |-> 0])
               /\ lastOp' = Op("cleared", w, "")
    /\ shadow' = [shadow EXCEPT
                    ![w].sinceReset = <<>>,
                    ![w].declared = FALSE,
                    ![w].refProgram = <<>>,
                    ![w].forgotten = Defined(widgets[w]),
                    ![w].clearDone = ("consoleIframe" \notin widgets[w].regions),
                    ![w].notices = IF "consoleIframe" \notin widgets[w].regions
                                   THEN @ + 1 ELSE @,
                    ![w].promised = 0,
                    ![w].reached = 0]
    /\ UNCHANGED <<consoleMessageBuffer, activeConsoleAppender, localStorage,
                   logCount, calls, template, reinstalled>>

\* ------------------------------------------------------- history navigation
\* A variant that leaves the cursor where the addition put it.
ClampNever(i, n) == i

\* Lines 219-223: the cursor is brought back into 0..n.
Clamp(i, n) == IF i < 0 THEN 0 ELSE IF i > n THEN n ELSE i

\* this.inputElement.value = this.inputHistory[i]: the text "undefined" when
\* the list has no such entry.
EntryText(h, i) == IF i + 1 \in DOMAIN h THEN h[i + 1] ELSE "undefined"

\* A variant in which no press takes the text of the field into the list.
CapturesNever(wd, direction) == FALSE

\* Line 210: an up press at the end of the list, with text in the field.
Captures(wd, direction) ==
    /\ direction = -1
    /\ wd.historyIndex = Len(wd.inputHistory)
    /\ Trim(wd.inputValue) # ""

\* A variant that records the text of the field on every press.
NavigatedAlways(wd, direction) == Recorded(wd.inputHistory, wd.inputValue)

\* The history list after navigateHistory(direction).
Navigated(wd, direction) ==
    IF Captures(wd, direction)
    THEN Recorded(wd.inputHistory, wd.inputValue)
    ELSE wd.inputHistory

\* navigateHistory(direction): yields the widgets afterwards.
navigateHistory(W, w, direction) ==
    LET h == Navigated(W[w], direction)
        reported == IF h # W[w].inputHistory /\ localStorage.throws
                    THEN ShowStorageError(W) ELSE W
        i == Clamp(W[w].historyIndex + direction, Len(h))
    IN [reported EXCEPT
          ![w].inputHistory = h,
          ![w].historyIndex = i,
          ![w].inputValue = IF i = Len(h) THEN "" ELSE EntryText(h, i)]

\* The count of presses in a row, kept up to MaxPresses.
Counted(n) == IF n < MaxPresses THEN n + 1 ELSE n

\* The history kept beside the widget, after a press.
ShadowAfterPress(sh, wd, direction) ==
    IF direction = -1
    THEN [sh EXCEPT !.ups = Counted(@), !.downs = 0,
                    !.runLen = IF sh.ups = 0 THEN Len(wd.inputHistory) ELSE @,
                    !.runFresh = IF sh.ups = 0
                                 THEN wd.historyIndex = Len(wd.inputHistory) ELSE @]
    ELSE [sh EXCEPT !.downs = Counted(@), !.ups = 0,
                    !.runLen = IF sh.downs = 0 THEN Len(wd.inputHistory) ELSE @,
                    !.runFresh = IF sh.downs = 0
                                 THEN wd.historyIndex = Len(wd.inputHistory) ELSE @]

\* The user presses ArrowUp (-1) or ArrowDown (1) in the input field.  (For
\* a history that is no list the presses are not modelled.)
Arrow(w, direction) ==
    /\ CanUse(w, "consoleInput")
    /\ widgets[w].historyKind = "array"
    /\ Len(Navigated(widgets[w], direction)) <= MaxHistory
    /\ widgets' = navigateHistory(widgets, w, direction)
    /\ localStorage' = StoreAfter(localStorage, widgets[w].inputHistory,
                                  Navigated(widgets[w], direction))
    /\ consoleMessageBuffer' = BufferAfter(consoleMessageBuffer, widgets[w].inputHistory,
                                           Navigated(widgets[w], direction))
    /\ originalCalls' = OriginalAfter(originalCalls, widgets[w].inputHistory,
                                      Navigated(widgets[w], direction))
    /\ reinstalled' = ReinstalledAfter(reinstalled, widgets[w].inputHistory,
                                       Navigated(widgets[w], direction))
    /\ shadow' = [shadow EXCEPT ![w] = ShadowAfterPress(@, widgets[w], direction)]
    /\ lastOp' = Op(IF direction = -1 THEN "up" ELSE "down", w, widgets[w].inputValue)
    /\ UNCHANGED <<activeConsoleAppender, logCount, calls, template>>

ArrowUp(w) == Arrow(w, -1)

ArrowDown(w) == Arrow(w, 1)

\* ------------------------------------------------ visibility and size
\* The parts of the page a handler of the panel may touch, as one value.
Page ==
    [widgets |-> widgets, buffer |-> consoleMessageBuffer,
     originalCalls |-> originalCalls, localStorage |-> localStorage,
     reinstalled |-> reinstalled]

Becomes(P) ==
    /\ widgets' = P.widgets
    /\ consoleMessageBuffer' = P.buffer
    /\ originalCalls' = P.originalCalls
    /\ localStorage' = P.localStorage
    /\ reinstalled' = P.reinstalled

\* console.error(...) in a catch block of the storage helpers: the wrapper
\* makes an ERROR entry, routes it to the active display or to the buffer, and
\* calls the original.
consoleError(P) ==
    [P EXCEPT !.widgets = ShowStorageError(@),
              !.buffer = BufferStorageError(@),
              !.originalCalls = Append(@, [fn |-> "error", id |-> 0]),
              !.reinstalled = [k \in DOMAIN @ |-> Append(@[k], StorageErrorEntry)]]

\* this.setLocalStorageItem(key, value), with its catch block.
Stored(P, key, value) ==
    IF P.localStorage.throws
    THEN consoleError(P)
    ELSE [P EXCEPT !.localStorage = setLocalStorageItem(@, key, value)]

\* The pixel text of a style length (the viewport is 1280 x 768).
Px(length) ==
    CASE length = "80vw" -> "1024px"
      [] length = "25vh" -> "192px"
      [] OTHER -> length

\* `${this.consoleDisplay.offsetWidth}px`: 0 for a display that is hidden or
\* out of the document.
OffsetWidth(wd) ==
    IF ~wd.connected \/ wd.display = "none" THEN "0px" ELSE Px(wd.width)

OffsetHeight(wd) ==
    IF ~wd.connected \/ wd.display = "none" THEN "0px" ELSE Px(wd.height)

\* saveConsoleSize()
saveConsoleSize(P, w) ==
    IF "consoleDisplay" \in P.widgets[w].regions
    THEN Stored(Stored(P, "virtualConsoleWidth", OffsetWidth(P.widgets[w])),
                "virtualConsoleHeight", OffsetHeight(P.widgets[w]))
    ELSE P

\* The ResizeObserver reports a change of the display's box: the debounce
\* timer is armed.
Observed(W, w) ==
    IF W[w].observing /\ "consoleDisplay" \in W[w].regions
    THEN [W EXCEPT ![w].saveTimer = TRUE]
    ELSE W

\* hideConsole()
hideConsole(P, w) ==
    saveConsoleSize(
        Stored([P EXCEPT !.widgets =
                   updateVisibility([@ EXCEPT ![w].isConsoleVisible = FALSE], w)],
               "virtualConsoleVisible", "false"),
        w)

\* showConsole()
showConsole(P, w) ==
    Stored([P EXCEPT !.widgets =
               updateVisibility([@ EXCEPT ![w].isConsoleVisible = TRUE], w)],
           "virtualConsoleVisible", "true")

\* click on the hide button.
ClickHide(w) ==
    /\ CanUse(w, "hideButton")
    /\ widgets[w].toggles < MaxToggles
    /\ LET P == hideConsole(Page, w)
       IN Becomes([P EXCEPT !.widgets =
                      Observed([@ EXCEPT ![w].toggles = @ + 1], w)])
    /\ shadow' = [v \in Widgets |-> [shadow[v] EXCEPT !.lastVisible = "hide"]]
    /\ lastOp' = Op("hide", w, "")
    /\ UNCHANGED <<activeConsoleAppender, logCount, calls, template>>

\* click on the show button.
ClickShow(w) ==
    /\ CanUse(w, "showButton")
    /\ widgets[w].toggles < MaxToggles
    /\ LET P == showConsole(Page, w)
       IN Becomes([P EXCEPT !.widgets =
                      Observed([@ EXCEPT ![w].toggles = @ + 1], w)])
    /\ shadow' = [v \in Widgets |-> [shadow[v] EXCEPT !.lastVisible = "show"]]
    /\ lastOp' = Op("show", w, "")
    /\ UNCHANGED <<activeConsoleAppender, logCount, calls, template>>

\* The user drags the corner of the visible display to 640 x 200.
Resize(w) ==
    /\ widgets[w].connected
    /\ "consoleDisplay" \in widgets[w].regions
    /\ widgets[w].display = "flex"
    /\ widgets[w].width # "640px"
    /\ widgets' = Observed([widgets EXCEPT ![w].width = "640px",
                                           ![w].height = "200px"], w)
    /\ lastOp' = Op("resize", w, "")
    /\ UNCHANGED <<consoleMessageBuffer, activeConsoleAppender, originalCalls,
                   localStorage, logCount, calls, template, shadow, reinstalled>>

\* The debounce timer fires: saveConsoleSize().
SaveSizeTimer(w) ==
    /\ widgets[w].saveTimer
    /\ Becomes(saveConsoleSize([Page EXCEPT !.widgets[w].saveTimer = FALSE], w))
    /\ lastOp' = Op("saved", w, "")
    /\ UNCHANGED <<activeConsoleAppender, logCount, calls, template, shadow>>

\* The page is loaded anew: the script runs from its first line and the
\* elements are constructed from the store as it stands.
Reload ==
    /\ consoleMessageBuffer' = ConstructionErrors(localStorage, Cardinality(Widgets))
    /\ activeConsoleAppender' = NullAppender
    /\ originalCalls' = ConstructionCalls(localStorage)
    /\ widgets' = [w \in Widgets |-> Constructed(localStorage)]
    /\ logCount' = 0
    /\ calls' = <<>>
    /\ reinstalled' = <<>>
    /\ shadow' = [w \in Widgets |->
                    [NoShadow EXCEPT !.lastVisible = shadow[w].lastVisible]]
    /\ lastOp' = Op("reload", 0, "")
    /\ UNCHANGED <<localStorage, template>>

\* ------------------------------------- the simpler variant (part_000)
\* The variant has no activeConsoleAppender: its wrappers push every entry
\* onto consoleMessageBuffer, and the only call of flushMessageBuffer is the
\* one in connectedCallback.  Its widgets are the same records.

\* A variant of the wrappers that hands the entry to a widget that is ready.
SimpleWrapperDirect(buf, W, entry) ==
    IF \E w \in Widgets : W[w].cc = "done"
    THEN [buffer |-> buf,
          widgets |-> appendMessage(W, CHOOSE w \in Widgets : W[w].cc = "done",
                                    Line(entry.type, entry.id, ""))]
    ELSE [buffer |-> Append(buf, entry), widgets |-> W]

\* The buffer and the widgets after a wrapper has dealt with its entry:
\* consoleMessageBuffer.push(messageEntry), lines 17, 25 and 33.
SimpleWrapper(buf, W, entry) == [buffer |-> Append(buf, entry), widgets |-> W]

\* console.log / console.warn / console.error of the variant.
SimpleConsoleCall(fn) ==
    /\ logCount < MaxLogs
    /\ LET id == logCount + 1
           messageEntry == [id |-> id, type |-> EntryType(fn)]
           after == SimpleWrapper(consoleMessageBuffer, widgets, messageEntry)
       IN /\ consoleMessageBuffer' = after.buffer
          /\ widgets' = after.widgets
          /\ originalCalls' = Append(originalCalls, [fn |-> fn, id |-> id])
          /\ logCount' = id
          /\ calls' = Append(calls, [id |-> id, fn |-> fn, routed |-> 0, entries |-> 1])
          /\ lastOp' = Op("console", 0, fn)
    /\ UNCHANGED <<activeConsoleAppender, localStorage, template, shadow, reinstalled>>

\* connectedCallback of the variant after its fetch (lines 103-131): as in
\* the other file; without an iframe it runs on to its flush (line 167).
SimpleFetchDone(w) ==
    /\ widgets[w].cc = "fetch"
    /\ LET tpl == template
           bound == [widgets EXCEPT
                       ![w].regions = tpl,
                       ![w].textarea = <<>>,
                       ![w].inputValue = "",
                       ![w].listeners = FALSE,
                       ![w].display = "flex",
                       ![w].width = IF "consoleDisplay" \in tpl
                                    THEN widgets[w].lastKnownWidth ELSE @,
                       ![w].height = IF "consoleDisplay" \in tpl
                                     THEN widgets[w].lastKnownHeight ELSE @,
                       ![w].saveTimer = IF "consoleDisplay" \in tpl THEN TRUE ELSE @,
                       ![w].observing = IF "consoleDisplay" \in tpl THEN TRUE ELSE @]
       IN IF "consoleIframe" \in tpl
          THEN /\ widgets' = [bound EXCEPT ![w].cc = "load", ![w].onload = "connect"]
               /\ lastOp' = Op("fetched", w, "")
               /\ UNCHANGED <<consoleMessageBuffer, originalCalls>>
          ELSE /\ widgets' = Registered([bound EXCEPT ![w].onload = "none"], w)
               /\ consoleMessageBuffer' = Drained(consoleMessageBuffer)
               /\ originalCalls' = Append(originalCalls, [fn |-> "error", id |-> 0])
               /\ lastOp' = Op("ready", w, "")
    /\ UNCHANGED <<activeConsoleAppender, localStorage, logCount, calls, template,
                   shadow, reinstalled>>

\* consoleIframe.onload of the variant (lines 229-284), and the rest of
\* connectedCallback when it awaited the load (lines 133-170).
SimpleIframeLoad(w) ==
    /\ widgets[w].onload # "none"
    /\ widgets[w].connected
    /\ LET loaded == [widgets EXCEPT ![w].iframeWindow = TRUE,
                                     ![w].bridge = TRUE,
                                     ![w].globals = {},
                                     ![w].onload = "none"]
       IN IF widgets[w].onload = "connect"
          THEN /\ widgets' = Registered(loaded, w)
               /\ consoleMessageBuffer' = Drained(consoleMessageBuffer)
               /\ lastOp' = Op("ready", w, "loaded")
          ELSE /\ widgets' = loaded
               /\ lastOp' = Op("reloaded", w, "loaded")
               /\ UNCHANGED consoleMessageBuffer
    /\ UNCHANGED <<activeConsoleAppender, originalCalls, localStorage, logCount,
                   calls, template, shadow, reinstalled>>

\* disconnectedCallback of the variant: the observer is disconnected.
SimpleDisconnect(w) ==
    /\ widgets[w].connected
    /\ widgets' = [widgets EXCEPT ![w].connected = FALSE, ![w].observing = FALSE]
    /\ lastOp' = Op("disconnect", w, "")
    /\ UNCHANGED <<consoleMessageBuffer, activeConsoleAppender, originalCalls,
                   localStorage, logCount, calls, template, shadow, reinstalled>>

\* ------------------------------------------------------- specifications
\* Interception and lifecycle of several widgets.
NextLog ==
    \/ \E fn \in LogFns : ConsoleCall(fn)
    \/ \E w \in Widgets : Connect(w)
    \/ \E w \in Widgets : FetchDone(w)
    \/ \E w \in Widgets : IframeLoad(w)
    \/ \E w \in Widgets : Disconnect(w)

SpecLog == Init /\ [][NextLog]_vars

\* The texts typed into the input field.
Typed == Inputs

\* The templates of the evaluator's runs.
EvalTemplates == {AllRegions, AllRegions \ {"consoleIframe"}}

\* The texts typed where the re-evaluation of console statements is examined.
RerunTyped == {"log_hi", "warn_hi", "syntax_err", "once"}

\* One widget attaching, its input field and its Clear button.
NextRerun ==
    \/ Connect(1)
    \/ FetchDone(1)
    \/ IframeLoad(1)
    \/ \E text \in RerunTyped : Submit(1, text)
    \/ ClickClear(1)

SpecRerun == InitWith({AllRegions}) /\ [][NextRerun]_vars

\* The texts typed where the console of the context is examined.
ContextTyped == {"error_hi"}

\* Two widgets attaching, host calls of console.error, and the input field
\* and Clear button of the first widget.
NextContext ==
    \/ \E w \in Widgets : Connect(w)
    \/ \E w \in Widgets : FetchDone(w)
    \/ \E w \in Widgets : IframeLoad(w)
    \/ ConsoleCall("error")
    \/ \E text \in ContextTyped : Submit(1, text)
    \/ ClickClear(1)

SpecContext == InitWith({AllRegions}) /\ [][NextContext]_vars

\* One widget: its lifecycle, its input field and its Clear button.
NextEval ==
    \/ Connect(1)
    \/ FetchDone(1)
    \/ IframeLoad(1)
    \/ Disconnect(1)
    \/ \E text \in Typed : Submit(1, text)
    \/ ClickClear(1)

SpecEval == InitWith(EvalTemplates) /\ [][NextEval]_vars

\* The texts typed where the history list is examined ("": the field is
\* emptied by hand).
HistoryTyped == {"g", "g_padded", "self", "blank", ""}

\* The stores of those runs: a history list saved by an earlier visit.
HistoryStores ==
    {[EmptyStorage EXCEPT !.virtualConsoleHistory = StringifyHistory(h)] :
        h \in {<<>>, <<"g", "self">>}}

\* One widget, its input field and the keys pressed in it.
NextHistory ==
    \/ Connect(1)
    \/ FetchDone(1)
    \/ IframeLoad(1)
    \/ \E text \in HistoryTyped : InputEvent(1, text)
    \/ KeydownEnter(1)
    \/ ArrowUp(1)
    \/ ArrowDown(1)

SpecHistory == InitFrom(EvalTemplates, HistoryStores) /\ [][NextHistory]_vars

\* What may stand under the history key when the page loads.
StoredHistories ==
    {Absent, StringifyHistory(<<"g">>)}
    \cup {[json |-> k, items |-> <<>>] : k \in {"garbage", "null", "number", "object"}}

\* The stores of the panel's runs: a store that works, with any history
\* text, and one whose getItem / setItem throw.
PanelStores ==
    {[EmptyStorage EXCEPT !.virtualConsoleHistory = h] : h \in StoredHistories}
    \cup {[EmptyStorage EXCEPT !.throws = TRUE]}

\* The templates of the panel's runs.
PanelTemplates == {AllRegions, AllRegions \ {"showButton"}}

\* One widget: its buttons, the size of its display, and reloads of the page.
NextPanel ==
    \/ Connect(1)
    \/ FetchDone(1)
    \/ IframeLoad(1)
    \/ ClickHide(1)
    \/ ClickShow(1)
    \/ Resize(1)
    \/ SaveSizeTimer(1)
    \/ ClickClear(1)
    \/ Reload

SpecPanel == InitFrom(PanelTemplates, PanelStores) /\ [][NextPanel]_vars

\* The interception alone: calls with any arguments, the script executed
\* again, and one widget attaching.
NextInstall ==
    \/ \E fn \in LogFns, args \in ArgLists : ConsoleCallWith(fn, args)
    \/ \E mode \in {"classic", "module"} : RunScriptAgain(mode)
    \/ Connect(1)
    \/ FetchDone(1)
    \/ IframeLoad(1)

SpecInstall == Init /\ [][NextInstall]_vars

\* The variant: interception and lifecycle of several widgets.
NextSimple ==
    \/ \E fn \in LogFns : SimpleConsoleCall(fn)
    \/ \E w \in Widgets : Connect(w)
    \/ \E w \in Widgets : SimpleFetchDone(w)
    \/ \E w \in Widgets : SimpleIframeLoad(w)
    \/ \E w \in Widgets : SimpleDisconnect(w)

SpecSimple == InitWith(EvalTemplates) /\ [][NextSimple]_vars

\* Everything: every handler of every widget.
Next ==
    \/ NextLog
    \/ \E w \in Widgets, text \in Typed \cup HistoryTyped : InputEvent(w, text)
    \/ \E w \in Widgets : KeydownEnter(w)
    \/ \E w \in Widgets : ClickClear(w)
    \/ \E w \in Widgets : ArrowUp(w) \/ ArrowDown(w)
    \/ \E w \in Widgets : ClickHide(w) \/ ClickShow(w)
    \/ \E w \in Widgets : Resize(w) \/ SaveSizeTimer(w)
    \/ \E fn \in LogFns, args \in ArgLists : ConsoleCallWith(fn, args)
    \/ \E mode \in {"classic", "module"} : RunScriptAgain(mode)
    \/ Reload

Spec == Init /\ [][Next]_vars

\* ================================================================ claims
\* The tag each wrapper is to write, stated independently of the wrappers.
SeverityTag(fn) ==
    IF fn = "log" THEN "LOG" ELSE IF fn = "warn" THEN "WARN" ELSE "ERROR"

\* Occurrences of the entry of call `id` in a sequence of lines or entries.
Occurrences(seq, id) == Cardinality({i \in 1..Len(seq) : seq[i].id = id})

RECURSIVE DeliveredIn(_, _)
DeliveredIn(S, id) ==
    IF S = {} THEN 0
    ELSE LET w == CHOOSE x \in S : TRUE
         IN Occurrences(widgets[w].textarea, id) + DeliveredIn(S \ {w}, id)

\* Times the entry of call `id` stands in some widget's output text.
Delivered(id) == DeliveredIn(Widgets, id)

\* The calls made while no display was registered, in call order.
CallsBeforeAttach == SelectSeq(calls, LAMBDA c : c.routed = 0)

\* C1: when a widget becomes ready while no display is registered, its output
\* holds exactly the entries of the calls made before, in call order, each
\* once, and the buffer is empty.
C1_FlushKeepsOrder ==
    (lastOp.op = "ready" /\ lastOp.slot = 0 /\ HasOutput(widgets, lastOp.w))
    => /\ widgets[lastOp.w].textarea =
             [i \in 1..Len(CallsBeforeAttach) |->
                 Line(SeverityTag(CallsBeforeAttach[i].fn), CallsBeforeAttach[i].id, "")]
       /\ consoleMessageBuffer = <<>>

C1_Witness ==
    /\ lastOp.op = "ready" /\ lastOp.slot = 0 /\ HasOutput(widgets, lastOp.w)
    /\ Len(widgets[lastOp.w].textarea) = MaxLogs
    /\ widgets[lastOp.w].textarea[1].type # widgets[lastOp.w].textarea[2].type

\* C2: every captured entry is either still in the buffer or appended exactly
\* once to a widget's output text: never both, never neither.
C2_BufferedXorDelivered ==
    \A id \in 1..logCount :
        Occurrences(consoleMessageBuffer, id) + Delivered(id) = 1

\* C6: when the widget holding the active-display slot is torn down, the slot
\* no longer refers to it afterwards.
C6_TeardownReleasesSlot ==
    (lastOp.op = "disconnect" /\ lastOp.slot = lastOp.w)
    => activeConsoleAppender.widget # lastOp.w

\* C7: tearing down a widget while another widget holds the slot leaves the
\* slot with that other widget, and a log call made while some widget is torn
\* down is still appended to the output of the widget holding the slot.
C7_OlderTeardownKeepsNewer ==
    /\ (lastOp.op = "disconnect" /\ lastOp.slot \notin {0, lastOp.w})
       => activeConsoleAppender.widget = lastOp.slot
    /\ (/\ lastOp.op = "console" /\ lastOp.slot # 0
        /\ HasOutput(widgets, lastOp.slot)
        /\ \E a \in Widgets \ {lastOp.slot} :
              widgets[a].cc = "done" /\ ~widgets[a].connected)
       => /\ Len(widgets[lastOp.slot].textarea) > 0
          /\ widgets[lastOp.slot].textarea[Len(widgets[lastOp.slot].textarea)].id = logCount

C7_Witness ==
    /\ lastOp.op = "disconnect" /\ lastOp.w = 1 /\ lastOp.slot = 2
    /\ widgets[1].cc = "done" /\ widgets[2].cc = "done"
    /\ activeConsoleAppender.widget = 2

C3_CodeIsCommittedInputs ==
    \A w \in Widgets :
        widgets[w].cumulativeExecutedCode = shadow[w].sinceReset

\* C4: what a submission displays is what it would display had the
\* submissions that threw never been made.
C4_ThrowingSubmissionLeavesNoTrace ==
    \A w \in Widgets : shadow[w].lines = shadow[w].refLines

\* C5: once `let x = 1;` has been committed and until Clear is invoked, a
\* submission of `x + 1` that is evaluated displays the OUTPUT value 2.
C5_LetStaysInScope ==
    (/\ lastOp.op = "enter" /\ lastOp.arg = "x_plus_1"
     /\ widgets[lastOp.w].iframeWindow
     /\ shadow[lastOp.w].declared)
    => shadow[lastOp.w].lines = <<Line("OUTPUT", 0, "2")>>

\* C9: at the moment a recreated evaluation context finishes loading (after
\* Clear, or in a run of connectedCallback), the accumulated program is empty.
C9_LoadedContextStartsEmpty ==
    (lastOp.op \in {"ready", "cleared"} /\ lastOp.arg = "loaded")
    => widgets[lastOp.w].cumulativeExecutedCode = <<>>

\* C10: once a Clear has completed, the accumulated program is empty, and a
\* submission referencing a name that was defined before that Clear (and not
\* defined again since) displays an ERROR line.
C10_ClearForgetsNames ==
    /\ lastOp.op = "cleared"
       => widgets[lastOp.w].cumulativeExecutedCode = <<>>
    /\ (/\ lastOp.op = "enter" /\ widgets[lastOp.w].iframeWindow
        /\ shadow[lastOp.w].clearDone
        /\ \/ lastOp.arg = "x_plus_1" /\ "x" \in shadow[lastOp.w].forgotten
           \/ lastOp.arg = "g" /\ "g" \in shadow[lastOp.w].forgotten)
       => /\ shadow[lastOp.w].lines # <<>>
          /\ shadow[lastOp.w].lines[1].type = "ERROR"

\* C11: a step of the Clear action (the click, and the load that completes it)
\* leaves the command history, its cursor, the visibility flag, the size of
\* the display and everything in the durable store as they were.
C11_ClearKeepsHistoryAndLook ==
    [][\A w \in Widgets :
          (ClickClear(w) \/ (IframeLoad(w) /\ widgets[w].onload = "clear"))
          => /\ widgets'[w].inputHistory = widgets[w].inputHistory
             /\ widgets'[w].historyIndex = widgets[w].historyIndex
             /\ widgets'[w].isConsoleVisible = widgets[w].isConsoleVisible
             /\ widgets'[w].display = widgets[w].display
             /\ widgets'[w].width = widgets[w].width
             /\ widgets'[w].height = widgets[w].height
             /\ localStorage' = localStorage]_vars

C11_Witness ==
    /\ lastOp.op = "cleared"
    /\ Len(widgets[lastOp.w].inputHistory) > 0
    /\ localStorage.virtualConsoleVisible = "true"
    /\ localStorage.virtualConsoleWidth = "640px"
    /\ localStorage.virtualConsoleHistory.json = "array"

\* C12: the Enter handler returns normally, whatever the text and whatever
\* the evaluation yields.
C12_SubmissionReturnsNormally ==
    lastOp.op = "enter" => ~lastOp.threw

\* C13: a read or write of the store that throws appends no line to any
\* widget's output and leaves nothing in the capture buffer to be flushed later.
C13_StoreFailureStaysOutOfPanel ==
    [][localStorage.throws
       => /\ (\E w \in Widgets : ClickHide(w) \/ ClickShow(w) \/ SaveSizeTimer(w))
             => /\ \A v \in Widgets : widgets'[v].textarea = widgets[v].textarea
                /\ consoleMessageBuffer' = consoleMessageBuffer
          /\ Reload => consoleMessageBuffer' = <<>>]_vars

\* C14: whatever stands under the history key, a construction completes and
\* yields a list with the cursor at its length, the empty list for a text
\* that is not the JSON of a list.
C14_ConstructionToleratesStoredHistory ==
    lastOp.op \in {"init", "reload"}
    => \A w \in Widgets :
          /\ widgets[w].constructed
          /\ widgets[w].historyKind = "array"
          /\ widgets[w].historyIndex = Len(widgets[w].inputHistory)
          /\ localStorage.virtualConsoleHistory.json \notin {"absent", "array"}
             => widgets[w].inputHistory = <<>>

\* C15: the history cursor stays within 0..length of the list; down presses
\* in a row from the end of the list leave it at the end with an empty field;
\* up presses in a row, more than the list was long, leave it at 0.
C15_CursorStaysInBounds ==
    \A w \in Widgets :
        /\ widgets[w].historyIndex >= 0
        /\ widgets[w].historyIndex <= Len(widgets[w].inputHistory)
        /\ (shadow[w].downs > 0 /\ shadow[w].runFresh)
           => /\ widgets[w].historyIndex = Len(widgets[w].inputHistory)
              /\ widgets[w].inputValue = ""
        /\ shadow[w].ups > shadow[w].runLen
           => widgets[w].historyIndex = 0

C15_Witness ==
    /\ lastOp.op = "up"
    /\ shadow[1].runLen >= 2
    /\ shadow[1].ups > shadow[1].runLen
    /\ widgets[1].historyIndex = 0
    /\ Len(widgets[1].inputHistory) > shadow[1].runLen

\* C16: the history list never holds two equal entries side by side, nor an
\* empty entry: no handler pushes a text equal to the last entry.
C16_NoEqualNeighbours ==
    \A w \in Widgets :
        /\ \A i \in 1..Len(widgets[w].inputHistory) : widgets[w].inputHistory[i] # ""
        /\ \A i \in 1..(Len(widgets[w].inputHistory) - 1) :
              widgets[w].inputHistory[i] # widgets[w].inputHistory[i + 1]

C16_Witness ==
    /\ lastOp.op = "enter" /\ lastOp.arg = "g_padded"
    /\ widgets[1].submits >= 2
    /\ widgets[1].inputHistory = <<"g">>
    /\ localStorage.virtualConsoleHistory = StringifyHistory(<<"g">>)

\* C17: with a working store, hide stores the flag false and show stores
\* true, and a widget constructed from the store afterwards is visible
\* exactly if the last of the two was show.
C17_VisibilityRoundTrip ==
    ~localStorage.throws
    => /\ lastOp.op = "hide" => localStorage.virtualConsoleVisible = "false"
       /\ lastOp.op = "show" => localStorage.virtualConsoleVisible = "true"
       /\ \A w \in Widgets :
             shadow[w].lastVisible # "none"
             => /\ Constructed(localStorage).isConsoleVisible
                      = (shadow[w].lastVisible = "show")
                /\ lastOp.op = "reload"
                   => widgets[w].isConsoleVisible = (shadow[w].lastVisible = "show")

C17_Witness ==
    /\ lastOp.op = "reload"
    /\ ~localStorage.throws
    /\ shadow[1].lastVisible = "hide"
    /\ widgets[1].constructed
    /\ ~widgets[1].isConsoleVisible

\* The history list the dedup rule is to yield, stated independently.
Deduped(h, text) ==
    IF h # <<>> /\ h[Len(h)] = Trim(text) THEN h ELSE h \o <<Trim(text)>>

\* C18: Enter on a non-blank text while the widget has no evaluation context
\* records the text per the dedup rule, appends the INPUT echo and then one
\* ERROR line and nothing else, and leaves the accumulated program and the
\* (absent) context as they were.
C18_NoContextNoEvaluation ==
    [][\A w \in Widgets :
          (KeydownEnter(w) /\ ~IsBlank(widgets[w].inputValue)
              /\ ~widgets[w].iframeWindow)
          => /\ widgets'[w].textarea =
                   widgets[w].textarea
                   \o <<Line("INPUT", 0, widgets[w].inputValue),
                        Line("ERROR", 0, "context not ready")>>
             /\ widgets'[w].inputHistory =
                   Deduped(widgets[w].inputHistory, widgets[w].inputValue)
             /\ widgets'[w].cumulativeExecutedCode = widgets[w].cumulativeExecutedCode
             /\ widgets'[w].globals = widgets[w].globals
             /\ ~widgets'[w].iframeWindow]_vars

C18_Witness ==
    /\ lastOp.op = "enter" /\ lastOp.arg = "self"
    /\ ~widgets[lastOp.w].iframeWindow
    /\ Len(widgets[lastOp.w].textarea) >= 4
    /\ widgets[lastOp.w].textarea[Len(widgets[lastOp.w].textarea)]
          = Line("ERROR", 0, "context not ready")

\* C19: a call of an intercepted function does not end by an exception of
\* the formatter, whatever its arguments.
C19_FormatterNeverThrows ==
    lastOp.op = "console" => ~lastOp.threw

\* C20: however often the script was executed, a call of a logging function
\* makes one LogEntry and reaches the original function once.
C20_InstallIsIdempotent ==
    (lastOp.op = "console" /\ ~lastOp.threw)
    => /\ calls[Len(calls)].entries = 1
       /\ Cardinality({i \in 1..Len(originalCalls) :
                          originalCalls[i].id = logCount}) = 1
\* C21: whenever the active-display slot is set the capture buffer is empty, so
\* every line of an intercepted call in an output text was captured before
\* every entry still in the buffer.
C21_HandoffIsAtomic ==
    /\ activeConsoleAppender # NullAppender => consoleMessageBuffer = <<>>
    /\ \A i \in 1..Len(consoleMessageBuffer), w \in Widgets :
          \A k \in 1..Len(widgets[w].textarea) :
              widgets[w].textarea[k].id # 0
                  => widgets[w].textarea[k].id < consoleMessageBuffer[i].id

C21_Witness ==
    /\ lastOp.op = "console" /\ lastOp.slot # 0
    /\ consoleMessageBuffer = <<>>
    /\ \E k \in 1..Len(calls) : calls[k].routed = 0 /\ calls[k].id < logCount
    /\ Len(widgets[lastOp.slot].textarea) = MaxLogs
    /\ widgets[lastOp.slot].textarea[MaxLogs].id = logCount
    /\ widgets[lastOp.slot].textarea[1].id = 1

\* C22: a widget that has been torn down and not inserted again holds no
\* active-display registration and observes no size changes, whenever the
\* teardown happened relative to the suspended steps of its initialization.
C22_TornDownStaysReleased ==
    \A w \in Widgets :
        (widgets[w].attaches > 0 /\ ~widgets[w].connected)
        => /\ ~widgets[w].observing
           /\ activeConsoleAppender.widget # w

\* C23: a submission whose evaluation throws shows its ERROR line and no
\* OUTPUT line: in an output text every OUTPUT line (a value or one of the two
\* markers) stands directly after the echo of its submission, never after an
\* ERROR line.
C23_ErrorWithoutOutput ==
    \A w \in Widgets :
        \A k \in 1..Len(widgets[w].textarea) :
            widgets[w].textarea[k].type = "OUTPUT"
            => /\ k > 1
               /\ widgets[w].textarea[k - 1].type = "INPUT"

\* C24: after any up or down press, the trimmed non-empty text that was in the
\* input before the press is still shown in the input or is an entry of the
\* history list.
C24_NoPressDiscardsText ==
    (lastOp.op \in {"up", "down"} /\ Trim(lastOp.arg) # "")
    => \/ Trim(widgets[lastOp.w].inputValue) = Trim(lastOp.arg)
       \/ \E i \in 1..Len(widgets[lastOp.w].inputHistory) :
             widgets[lastOp.w].inputHistory[i] = Trim(lastOp.arg)

\* C24 as amended: after an up press made with the cursor at the end of the
\* list, the trimmed non-empty text that was in the input is still shown in
\* the input or is an entry of the history list (a down press there empties
\* the input and keeps nothing).
C24_UpPressKeepsDraft ==
    [][\A w \in Widgets :
          (/\ ArrowUp(w)
           /\ widgets[w].historyIndex = Len(widgets[w].inputHistory)
           /\ Trim(widgets[w].inputValue) # "")
          => \/ Trim(widgets'[w].inputValue) = Trim(widgets[w].inputValue)
             \/ \E i \in 1..Len(widgets'[w].inputHistory) :
                   widgets'[w].inputHistory[i] = Trim(widgets[w].inputValue)]_vars

C24_Witness ==
    /\ lastOp.op = "up" /\ lastOp.arg = "g_padded"
    /\ shadow[lastOp.w].ups = 1 /\ shadow[lastOp.w].runFresh
    /\ Len(widgets[lastOp.w].inputHistory) = shadow[lastOp.w].runLen + 1
    /\ widgets[lastOp.w].inputHistory[Len(widgets[lastOp.w].inputHistory)] = "g"
    /\ widgets[lastOp.w].inputValue # "g_padded"

\* C25: with an empty history list a press of up or down, whatever the input
\* field holds, leaves the list empty, the store as it was, and the cursor at 0.
C25_EmptyHistoryPressIsNoOp ==
    [][\A w \in Widgets :
          ((ArrowUp(w) \/ ArrowDown(w)) /\ widgets[w].inputHistory = <<>>)
          => /\ widgets'[w].inputHistory = <<>>
             /\ localStorage' = localStorage
             /\ widgets'[w].historyIndex = 0]_vars

\* C25 as amended: with an empty history list a press of down, or a press of
\* up while the input field is empty or blank, leaves the list empty, the
\* store as it was, and the cursor at 0.
C25_EmptyHistoryBlankPressIsNoOp ==
    [][\A w \in Widgets :
          (/\ widgets[w].inputHistory = <<>>
           /\ \/ ArrowDown(w)
              \/ ArrowUp(w) /\ Trim(widgets[w].inputValue) = "")
          => /\ widgets'[w].inputHistory = <<>>
             /\ localStorage' = localStorage
             /\ widgets'[w].historyIndex = 0]_vars

C25_Witness ==
    /\ lastOp.op = "up" /\ lastOp.arg = "blank"
    /\ widgets[lastOp.w].inputHistory = <<>>
    /\ widgets[lastOp.w].historyIndex = 0
    /\ widgets[lastOp.w].inputValue = ""
    /\ localStorage.virtualConsoleHistory = StringifyHistory(<<>>)
    /\ shadow[lastOp.w].ups = 1

\* C26: when a submission or an up press has changed the history list, the
\* store holds the serialization of the list under the history key, and a
\* widget constructed from the store has an equal list, its cursor at the
\* list's length.
C26_StoredHistoryIsTheList ==
    [][\A w \in Widgets :
          (/\ KeydownEnter(w) \/ ArrowUp(w)
           /\ ~localStorage.throws
           /\ widgets'[w].inputHistory # widgets[w].inputHistory)
          => /\ localStorage'.virtualConsoleHistory
                   = StringifyHistory(widgets'[w].inputHistory)
             /\ Constructed(localStorage').constructed
             /\ Constructed(localStorage').inputHistory = widgets'[w].inputHistory
             /\ Constructed(localStorage').historyIndex
                   = Len(widgets'[w].inputHistory)]_vars

C26_Witness ==
    /\ lastOp.op = "up" /\ lastOp.arg = "g"
    /\ ~localStorage.throws
    /\ widgets[lastOp.w].inputHistory = <<"g", "self", "g">>
    /\ localStorage.virtualConsoleHistory = StringifyHistory(<<"g", "self", "g">>)
    /\ widgets[lastOp.w].historyIndex = 2

\* C27: k Clear actions produce k notices: whenever no context load is
\* pending for a widget, clearConsole() has appended its notice as many times
\* as Clear was clicked.
C27_EveryClearGetsItsNotice ==
    \A w \in Widgets :
        (widgets[w].cc = "done" /\ widgets[w].onload = "none" /\ HasOutput(widgets, w))
        => shadow[w].notices = widgets[w].clears

\* The types of the lines that come from the console of a context.
IframeTags == {"IFRAME_LOG", "IFRAME_WARN", "IFRAME_ERROR"}

\* The lines of those types in the output text of widget w.
IframeLineCount(w) ==
    Cardinality({k \in 1..Len(widgets[w].textarea) :
                    widgets[w].textarea[k].type \in IframeTags})

\* C28: until Clear, a committed console statement has one line in the output
\* for its own submission and one more for each later submission handed to
\* the evaluator.
C28_RerunEmitsOnEverySubmission ==
    \A w \in Widgets :
        HasOutput(widgets, w) => IframeLineCount(w) = shadow[w].promised

\* C28 as amended: while the widget stays attached and until Clear, a committed
\* console statement has one line in the output for its own submission and one
\* more for each later submission whose evaluation runs up to that statement
\* (the candidate text has no early error and no earlier statement throws).
C28_RerunEmitsWhenReached ==
    \A w \in Widgets :
        HasOutput(widgets, w) => IframeLineCount(w) = shadow[w].reached

C28_Witness ==
    /\ lastOp.op = "enter" /\ lastOp.arg = "warn_hi"
    /\ widgets[1].cumulativeExecutedCode = <<"log_hi", "warn_hi">>
    /\ IframeLineCount(1) = 3
    /\ shadow[1].reached = 3
    /\ shadow[1].promised = 4

\* Every entry made by the host's wrappers carries a host tag, and every
\* loaded context has the wrappers of its console installed.
HostEntriesUntagged ==
    /\ \A i \in 1..Len(consoleMessageBuffer) :
          consoleMessageBuffer[i].type \notin IframeTags
    /\ \A w \in Widgets :
          /\ \A k \in 1..Len(widgets[w].textarea) :
                widgets[w].textarea[k].id # 0
                    => widgets[w].textarea[k].type \in {"LOG", "WARN", "ERROR"}
          /\ widgets[w].iframeWindow => widgets[w].bridge

\* C29: a console statement evaluated in a widget's context appends its line,
\* tagged IFRAME_*, to the output of that widget and changes neither the
\* buffer, nor the slot, nor the output of another widget; lines with an
\* IFRAME_ tag come from nowhere else, host entries never carry one, and every
\* loaded context (after Clear too) has the interception installed.
C29_ContextLogsGoToOwner ==
    [][/\ HostEntriesUntagged'
       /\ \A w \in Widgets :
             /\ IframeLineCount(w)' > IframeLineCount(w)
                   => lastOp' = [Op("enter", w, lastOp'.arg) EXCEPT !.threw = lastOp'.threw]
             /\ \A text \in ContextTyped :
                   (lastOp' = Op("enter", w, text) /\ widgets[w].iframeWindow)
                   => /\ consoleMessageBuffer' = consoleMessageBuffer
                      /\ activeConsoleAppender' = activeConsoleAppender
                      /\ originalCalls' = originalCalls
                      /\ \A v \in Widgets \ {w} :
                            widgets'[v].textarea = widgets[v].textarea
                      /\ HasOutput(widgets, w)
                            => /\ IframeLineCount(w)' > IframeLineCount(w)
                               /\ widgets'[w].textarea[Len(widgets'[w].textarea) - 1]
                                     = Line(ContextTag(text), 0, "hi")]_vars

C29_Witness ==
    /\ lastOp.op = "enter" /\ lastOp.w = 1 /\ lastOp.arg = "error_hi"
    /\ activeConsoleAppender.widget = 2
    /\ shadow[1].notices > 0
    /\ widgets[1].onload = "none"
    /\ IframeLineCount(1) > 0
    /\ \E k \in 1..Len(widgets[2].textarea) :
          widgets[2].textarea[k].type = "ERROR" /\ widgets[2].textarea[k].id > 0
    /\ consoleMessageBuffer = <<>>

\* The tail of the variant's connectedCallback runs for widget w.
SimpleFlushes(w) ==
    \/ SimpleFetchDone(w) /\ "consoleIframe" \notin template
    \/ SimpleIframeLoad(w) /\ widgets[w].onload = "connect"

\* C30: in the variant a log call only appends its entry to the buffer and
\* changes no output; the buffer loses entries, and an output gains the line
\* of a call, only in a step in which some widget's connectedCallback reaches
\* its flush; so an entry captured after a flush stays buffered until then.
C30_VariantOnlyBuffers ==
    [][/\ \A fn \in LogFns :
             SimpleConsoleCall(fn)
             => /\ consoleMessageBuffer'
                      = Append(consoleMessageBuffer,
                               [id |-> logCount + 1, type |-> SeverityTag(fn)])
                /\ \A w \in Widgets : widgets'[w].textarea = widgets[w].textarea
       /\ (\E i \in 1..Len(consoleMessageBuffer) :
               Occurrences(consoleMessageBuffer', consoleMessageBuffer[i].id) = 0)
          => \E w \in Widgets : SimpleFlushes(w)
       /\ \A w \in Widgets, id \in 1..MaxLogs :
             Occurrences(widgets'[w].textarea, id) > Occurrences(widgets[w].textarea, id)
             => SimpleFlushes(w)]_vars

C30_Witness ==
    /\ lastOp.op = "console"
    /\ \E w \in Widgets :
          /\ widgets[w].cc = "done" /\ widgets[w].connected
          /\ Occurrences(widgets[w].textarea, 1) = 1
    /\ logCount = 2
    /\ consoleMessageBuffer = <<[id |-> 2, type |-> "WARN"]>>
    /\ Delivered(2) = 0
====
